---- MODULE Spec2Model ----
(***************************************************************************)
(* Model of the entry point of cdk-diff-action (src/src/action.ts, run())  *)
(* and of the inputs it reads (src/src/inputs.ts).                         *)
(*                                                                         *)
(* run() is one sequential async function.  Each action below is one step  *)
(* of it, in program order; pc is the position of the single thread of     *)
(* control.  The collaborators (fast-glob, fs, git, the AssemblyProcessor  *)
(* and the Comments client) answer nondeterministically at the step that   *)
(* calls them; what they were asked and what they answered is kept in the  *)
(* call logs.                                                              *)
(***************************************************************************)
EXTENDS Integers, Sequences, FiniteSets, TLC

\* ------------------------------------------------------------------ bounds
\* Largest number of Stages an assembly holds.
MaxStages == 2
\* Largest number of runs of the pipeline against one pull request.
MaxRuns == 2
\* Longest match list of a glob expansion that may name a path repeatedly.
MaxMatches == 2

\* ------------------------------------------------------- small input sets
\* Directories the glob can match.
Paths == {"a/cdk.out", "b/cdk.out"}

\* path.dirname of each path the model uses.
Dirname(directory) ==
  CASE directory = "a/cdk.out" -> "a"
    [] directory = "b/cdk.out" -> "b"
    [] OTHER -> "."

\* The value JavaScript's `undefined` stands for in a title.
Undefined == "<undefined>"

\* Values the runner can supply for each input ("" is: not supplied).
CdkOutDirsValues == {"", "apps/*/cdk.out"}
BaseRefValues == {"", "origin/develop"}
TitleValues == {"", "Infra diff"}
TokenValues == {"", "ghs_token"}
\* The multi-line input, one element per line of the raw value.
PatternLinesValues == {<<>>, <<"">>, <<"Prod*">>}
StrategyValues == {"", "all-stacks", "pattern-match"}
DiffMethodValues ==
  {"", "change-set", "template-only", " template-only ", "Template-Only"}

\* What child_process.execSync gives for `git diff --name-only`: the output
\* (one element per changed file), or a throw when it could not execute.
GitThrows == [threw |-> TRUE, output |-> <<>>]
GitResponses ==
  {[threw |-> FALSE, output |-> <<>>],
   [threw |-> FALSE, output |-> <<"lib/stack.ts">>],
   GitThrows}

\* What the diff engine does for one Stage: it answers with a diff, or it
\* throws.
EngineResponses == {"changes", "throws"}

\* ------------------------------------------------------------- utilities
Range(s) == {s[i] : i \in 1..Len(s)}

\* The sequences over S without repetition.
UniqueSeqs(S) ==
  UNION {{s \in [1..n -> S] : \A i, j \in 1..n : s[i] = s[j] => i = j}
         : n \in 0..Cardinality(S)}

\* The elements of s at the positions keep holds of, in order.
RECURSIVE KeepAt(_, _, _)
KeepAt(s, keep, i) ==
  IF i > Len(s) THEN <<>>
  ELSE (IF keep[i] THEN <<s[i]>> ELSE <<>>) \o KeepAt(s, keep, i + 1)

\* ------------------------------------------------------------------ state
VARIABLES
  env,            \* the inputs as the workflow supplies them
  pc,             \* position of run()
  error,          \* what run() threw, "none" while it has not
  inputPattern,   \* run(): inputPattern
  baseRef,        \* run(): baseRef
  allCdkOutDirs,  \* run(): allCdkOutDirs
  cdkOutDirs,     \* run(): cdkOutDirs
  inputs,         \* run(): inputs
  octokit,        \* run(): octokit
  toolkit,        \* run(): toolkit
  method,         \* run(): method
  idx,            \* position of the for-of loop in cdkOutDirs
  results,        \* the current processor's DiffResults
  engineCalls,    \* the engine's answers to the current processor, per Stage
  globCalls,      \* patterns handed to glob
  gitCalls,       \* git comparisons made
  processCalls,   \* processStages calls made, with the processor's options
  commentCalls,   \* commentStages calls made
  prComments,     \* the pull request's comment artifacts
  runNo,          \* which run against the pull request this is
  prev            \* what the previous run left

vars == <<env, pc, error, inputPattern, baseRef, allCdkOutDirs, cdkOutDirs,
          inputs, octokit, toolkit, method, idx, results, engineCalls,
          globCalls, gitCalls, processCalls, commentCalls, prComments, runNo,
          prev>>

Unset == "<unset>"
NoInputs == [set |-> FALSE]
NoPrev == [run |-> 0]

\* The locals of run() before its first statement.
RunStart ==
  /\ pc = "start"
  /\ error = "none"
  /\ inputPattern = Unset
  /\ baseRef = Unset
  /\ allCdkOutDirs = <<>>
  /\ cdkOutDirs = <<>>
  /\ inputs = NoInputs
  /\ octokit = Unset
  /\ toolkit = Unset
  /\ method = Unset
  /\ idx = 0
  /\ results = <<>>
  /\ engineCalls = <<>>
  /\ globCalls = <<>>
  /\ gitCalls = <<>>
  /\ processCalls = <<>>
  /\ commentCalls = <<>>

EnvValues ==
  [cdkOutDirs : CdkOutDirsValues,
   baseRef : BaseRefValues,
   title : TitleValues,
   githubToken : TokenValues,
   stackSelectorPatterns : PatternLinesValues,
   stackSelectionStrategy : StrategyValues,
   diffMethod : DiffMethodValues]

Init ==
  /\ env \in EnvValues
  /\ RunStart
  /\ prComments = {}
  /\ runNo = 1
  /\ prev = NoPrev

\* ------------------------------------------------- @actions/core inputs
\* String.prototype.trim on the values the model uses.
Trim(s) ==
  CASE s = " template-only " -> "template-only"
    [] OTHER -> s

\* getInput(name): the supplied value, trimmed; "" when not supplied.
GetInput(name) == Trim(env[name])

\* getInput(name, {required: true}) throws when nothing was supplied.
RequiredMissing(name) == env[name] = ""

\* getMultilineInput(name): the non-empty lines, each trimmed.
GetMultilineInput(name) ==
  LET lines == env[name]
      kept == SelectSeq(lines, LAMBDA x : x # "")
  IN [i \in 1..Len(kept) |-> Trim(kept[i])]

\* --------------------------------------------------- ChangeScope resolver
\* What fast-glob can return for a pattern: paths in traversal order,
\* each once (fast-glob's `unique` option is on by default).
GlobResults == UniqueSeqs(Paths)

\* expandCdkDirectories: the matches that exist and are directories when
\* fs.existsSync / fs.statSync look at them.
ExpandCdkDirectories(matches, existing) ==
  SelectSeq(matches, LAMBDA match : match \in existing)

\* Variant of hasGitChanges that takes a failed comparison for no change.
HasGitChangesFailClosed(response) ==
  IF response.threw THEN FALSE ELSE Len(response.output) > 0

\* Variant of hasGitChanges that ignores what git printed.
HasGitChangesAlways(response) == TRUE

\* hasGitChanges: the trimmed output is non-empty; a subprocess that could
\* not execute counts as changed.
HasGitChanges(response) ==
  IF response.threw THEN TRUE ELSE Len(response.output) > 0

\* Variant of filterDirectoriesWithChanges that keeps a path once.
FilterDirectoriesWithChangesUnique(directories, responses) ==
  KeepAt(directories,
         [i \in 1..Len(directories) |->
            /\ HasGitChanges(responses[i])
            /\ \A j \in 1..(i - 1) :
                 directories[j] = directories[i] => ~HasGitChanges(responses[j])],
         1)

\* filterDirectoriesWithChanges: directories.filter(hasGitChanges), where
\* responses[i] is git's answer for directories[i].
FilterDirectoriesWithChanges(directories, responses) ==
  KeepAt(directories,
         [i \in 1..Len(directories) |-> HasGitChanges(responses[i])], 1)

\* Variant of the comparisons that gives up at the first one that fails.
GitCallsOfUntilThrow(directories, ref, responses) ==
  LET failing == {i \in 1..Len(directories) : responses[i].threw}
      last == IF failing = {} THEN Len(directories)
              ELSE CHOOSE i \in failing : \A j \in failing : i <= j
  IN [i \in 1..last |->
        [directory |-> directories[i],
         projectDir |-> Dirname(directories[i]),
         baseRef |-> ref,
         response |-> responses[i]]]

\* The git comparisons filterDirectoriesWithChanges makes, in order.
GitCallsOf(directories, ref, responses) ==
  [i \in 1..Len(directories) |->
     [directory |-> directories[i],
      projectDir |-> Dirname(directories[i]),
      baseRef |-> ref,
      response |-> responses[i]]]

\* ------------------------------------------------------------ entry point
\* run(): const inputPattern = cdkOutDirsInput || '**/cdk.out'
InputPatternOf(cdkOutDirsInput) ==
  IF cdkOutDirsInput = "" THEN "**/cdk.out" ELSE cdkOutDirsInput

\* Variant of the baseRef default that names another branch.
BaseRefOfMaster(baseRefInput) ==
  IF baseRefInput = "" THEN "origin/master" ELSE baseRefInput

\* run(): const baseRef = baseRefInput || 'origin/main'
BaseRefOf(baseRefInput) ==
  IF baseRefInput = "" THEN "origin/main" ELSE baseRefInput

\* run(): title: getInput('title') || undefined
TitleOf(titleInput) == IF titleInput = "" THEN Undefined ELSE titleInput

\* run(): the inputs object literal.
ReadInputs ==
  [set |-> TRUE,
   title |-> TitleOf(GetInput("title")),
   githubToken |-> GetInput("githubToken"),
   stackSelectorPatterns |-> GetMultilineInput("stackSelectorPatterns"),
   stackSelectionStrategy |-> GetInput("stackSelectionStrategy"),
   baseRef |-> baseRef,
   diffMethod |-> GetInput("diffMethod")]

\* Variant of the selection upgrade that leaves the strategy as supplied.
UpgradeStrategyNone(inp) == inp

\* Variant of the selection upgrade that fires for every strategy.
UpgradeStrategyAny(inp) ==
  IF Len(inp.stackSelectorPatterns) > 0
  THEN [inp EXCEPT !.stackSelectionStrategy = "pattern-must-match"]
  ELSE inp

\* run(): non-empty patterns with 'all-stacks' become 'pattern-must-match'.
UpgradeStrategy(inp) ==
  IF Len(inp.stackSelectorPatterns) > 0
     /\ inp.stackSelectionStrategy = "all-stacks"
  THEN [inp EXCEPT !.stackSelectionStrategy = "pattern-must-match"]
  ELSE inp

\* Variant of the method mapping that falls back to TemplateOnly.
DiffMethodOfSwapped(diffMethod) ==
  IF diffMethod = "change-set" THEN "ChangeSet" ELSE "TemplateOnly"

\* run(): const method = inputs.diffMethod === 'template-only' ? ... : ...
DiffMethodOf(diffMethod) ==
  IF diffMethod = "template-only" THEN "TemplateOnly" ELSE "ChangeSet"

\* github.getOctokit(token) throws when the token is empty.
OctokitThrows(token) == token = ""

\* Variant of the processor options in which the spread of inputs comes
\* last and overrides the computed method with the raw input.
ProcessorOptionsSpreadLast(inp, cdkOutDir, m, tk) ==
  [title |-> inp.title,
   githubToken |-> inp.githubToken,
   stackSelectorPatterns |-> inp.stackSelectorPatterns,
   stackSelectionStrategy |-> inp.stackSelectionStrategy,
   baseRef |-> inp.baseRef,
   cdkOutDir |-> cdkOutDir,
   diffMethod |-> inp.diffMethod,
   toolkit |-> tk]

\* run(): the options of new AssemblyProcessor({...inputs, cdkOutDir,
\* diffMethod: method, toolkit}).
ProcessorOptions(inp, cdkOutDir, m, tk) ==
  [title |-> inp.title,
   githubToken |-> inp.githubToken,
   stackSelectorPatterns |-> inp.stackSelectorPatterns,
   stackSelectionStrategy |-> inp.stackSelectionStrategy,
   baseRef |-> inp.baseRef,
   cdkOutDir |-> cdkOutDir,
   diffMethod |-> m,
   toolkit |-> tk]

\* Variant of AfterExpand that lacks the emptiness check.
AfterExpandUnchecked(directories) == [pc |-> "filter", error |-> "none"]

\* run(), lines 86-88: no directory found throws, else the filter is next.
AfterExpand(directories) ==
  IF Len(directories) = 0
  THEN [pc |-> "failed", error |-> "ConfigurationError"]
  ELSE [pc |-> "filter", error |-> "none"]

\* Variant of AfterFilter that treats no changed directory like no
\* directory.
AfterFilterThrows(filtered) ==
  IF Len(filtered) = 0
  THEN [pc |-> "failed", error |-> "ConfigurationError"]
  ELSE [pc |-> "inputs", error |-> "none"]

\* Variant of AfterFilter that lacks the early return.
AfterFilterProceeds(filtered) == [pc |-> "inputs", error |-> "none"]

\* run(), lines 93-96: no directory changed returns, else the inputs are
\* read next.
AfterFilter(filtered) ==
  IF Len(filtered) = 0
  THEN [pc |-> "done", error |-> "none"]
  ELSE [pc |-> "inputs", error |-> "none"]

\* Variant of the processStages catch that logs and does not rethrow.
ProcessStagesSwallow == [pc |-> "comment", error |-> "ProcessStagesError"]

\* Variant of the processStages catch that tries the directory again.
ProcessStagesRetry == [pc |-> "process", error |-> "none"]

\* run(), lines 143-146 and 155-158: a processStages throw is rethrown.
ProcessStagesCatch == [pc |-> "failed", error |-> "ProcessStagesError"]

\* Variant of the commentStages catch that logs and ends the run normally.
CommentStagesSwallow == [pc |-> "done", error |-> "CommentStagesError"]

\* run(), lines 150-153 and 155-158: a commentStages throw is rethrown.
CommentStagesCatch == [pc |-> "failed", error |-> "CommentStagesError"]

\* Variant of the loop that ends after its first directory.
NextDirectoryNone(i, directories) == "done"

\* run(), line 133: the for-of loop takes the next directory, or ends.
NextDirectory(i, directories) ==
  IF i >= Len(directories) THEN "done" ELSE "process"

\* -------------------------------------------------------- diff orchestrator
\* The assemblies' engine answers, one per Stage, in Stage order.
StageResponses ==
  UNION {[1..n -> EngineResponses] : n \in 1..MaxStages}

\* The DiffResult of one Stage: an engine error is caught and recorded.
DiffResultOf(stage, response) ==
  [stage |-> stage,
   outcome |-> CASE response = "throws" -> "error"
                 [] response = "changes" -> "changed"
                 [] OTHER -> "unchanged"]

\* Variant of processStages that stops at the first Stage whose engine call
\* throws.
ProcessStagesUntilError(responses) ==
  LET thrown == {i \in 1..Len(responses) : responses[i] = "throws"}
      last == IF thrown = {} THEN Len(responses)
              ELSE (CHOOSE i \in thrown : \A j \in thrown : i <= j) - 1
  IN [i \in 1..last |-> DiffResultOf(i, responses[i])]

\* processStages: every Stage is diffed, in order.
ProcessStagesResults(responses) ==
  [i \in 1..Len(responses) |-> DiffResultOf(i, responses[i])]

\* ------------------------------------------------------ comment synchronizer
\* The identity key of a directory's comment.
IdentityKey(cdkOutDir, title) == <<cdkOutDir, title>>

\* The rendered body: the title, then every DiffResult in order.
RenderBody(title, res) == [title |-> title, entries |-> res]

\* findExisting(key): the artifacts of the pull request with that key.
FindExisting(comments, key) == {c \in comments : c.key = key}

\* Variant of the upsert that never looks for a prior artifact.
UpsertCreateOnly(comments, key, body) ==
  comments \cup
  {[id |-> Cardinality(comments) + 1, key |-> key, body |-> body]}

\* The upsert: overwrite the artifact found by the key, else create one.
Upsert(comments, key, body) ==
  IF FindExisting(comments, key) # {}
  THEN {IF c.key = key THEN [c EXCEPT !.body = body] ELSE c : c \in comments}
  ELSE comments \cup
       {[id |-> Cardinality(comments) + 1, key |-> key, body |-> body]}

\* Which write the upsert makes.
WriteKind(comments, key) ==
  IF FindExisting(comments, key) # {} THEN "update" ELSE "create"

\* ------------------------------------------------------------------ actions
\* What no step before the directory loop touches.
loopVars == <<idx, results, engineCalls, processCalls, commentCalls,
              prComments>>

\* What belongs to the pull request and its workflow, not to one run.
prVars == <<env, runNo, prev>>

\* run(), lines 77-81: the two inputs read before anything else.
GetEarlyInputs ==
  /\ pc = "start"
  /\ inputPattern' = InputPatternOf(GetInput("cdkOutDirs"))
  /\ baseRef' = BaseRefOf(GetInput("baseRef"))
  /\ pc' = "expand"
  /\ UNCHANGED <<error, allCdkOutDirs, cdkOutDirs, inputs, octokit, toolkit,
                 method, globCalls, gitCalls>>
  /\ UNCHANGED <<loopVars, prVars>>

\* run(), lines 84-88: expand the pattern; no directory is an error.
Expand ==
  /\ pc = "expand"
  /\ \E matches \in GlobResults, existing \in SUBSET Paths :
       LET directories == ExpandCdkDirectories(matches, existing) IN
         /\ allCdkOutDirs' = directories
         /\ globCalls' = Append(globCalls, inputPattern)
         /\ pc' = AfterExpand(directories).pc
         /\ error' = AfterExpand(directories).error
  /\ UNCHANGED <<inputPattern, baseRef, cdkOutDirs, inputs, octokit, toolkit,
                 method, gitCalls>>
  /\ UNCHANGED <<loopVars, prVars>>

\* run(), lines 91-96: keep the changed directories; none left is a no-op.
Filter ==
  /\ pc = "filter"
  /\ \E responses \in [1..Len(allCdkOutDirs) -> GitResponses] :
       LET filtered == FilterDirectoriesWithChanges(allCdkOutDirs, responses)
       IN
         /\ cdkOutDirs' = filtered
         /\ gitCalls' = gitCalls \o GitCallsOf(allCdkOutDirs, baseRef, responses)
         /\ pc' = AfterFilter(filtered).pc
         /\ error' = AfterFilter(filtered).error
  /\ UNCHANGED <<inputPattern, baseRef, allCdkOutDirs, inputs, octokit,
                 toolkit, method, globCalls>>
  /\ UNCHANGED <<loopVars, prVars>>

\* run(), lines 98-107: read the remaining inputs; a required input that was
\* not supplied throws before the object exists.
GetInputs ==
  /\ pc = "inputs"
  /\ IF RequiredMissing("stackSelectionStrategy")
        \/ RequiredMissing("diffMethod")
     THEN /\ pc' = "failed"
          /\ error' = "InputRequiredError"
          /\ inputs' = inputs
     ELSE /\ pc' = "upgrade"
          /\ error' = error
          /\ inputs' = ReadInputs
  /\ UNCHANGED <<inputPattern, baseRef, allCdkOutDirs, cdkOutDirs, octokit,
                 toolkit, method, globCalls, gitCalls>>
  /\ UNCHANGED <<loopVars, prVars>>

\* run(), lines 109-114: the selection-upgrade rule.
Upgrade ==
  /\ pc = "upgrade"
  /\ inputs' = UpgradeStrategy(inputs)
  /\ pc' = "clients"
  /\ UNCHANGED <<error, inputPattern, baseRef, allCdkOutDirs, cdkOutDirs,
                 octokit, toolkit, method, globCalls, gitCalls>>
  /\ UNCHANGED <<loopVars, prVars>>

\* run(), lines 118-131: the platform client, the toolkit, the method and
\* the Comments client; the loop starts at the first directory.
CreateClients ==
  /\ pc = "clients"
  /\ IF OctokitThrows(inputs.githubToken)
     THEN /\ pc' = "failed"
          /\ error' = "TokenRequiredError"
          /\ UNCHANGED <<octokit, toolkit, method, idx>>
     ELSE /\ octokit' = "octokit"
          /\ toolkit' = "toolkit"
          /\ method' = DiffMethodOf(inputs.diffMethod)
          /\ idx' = 1
          /\ pc' = "process"
          /\ error' = error
  /\ UNCHANGED <<inputPattern, baseRef, allCdkOutDirs, cdkOutDirs, inputs,
                 globCalls, gitCalls, results, engineCalls, processCalls,
                 commentCalls, prComments>>
  /\ UNCHANGED prVars

\* Variant of the processStages step that goes on to the next directory's
\* processStages and leaves commenting to the last directory.
ProcessStagesAhead ==
  /\ pc = "process"
  /\ processCalls' =
       Append(processCalls,
              ProcessorOptions(inputs, cdkOutDirs[idx], method, toolkit))
  /\ \/ /\ engineCalls' = <<>>
        /\ results' = <<>>
        /\ pc' = "failed"
        /\ error' = "ProcessStagesError"
        /\ idx' = idx
     \/ \E responses \in StageResponses :
          /\ engineCalls' = responses
          /\ results' = ProcessStagesResults(responses)
          /\ pc' = IF idx < Len(cdkOutDirs) THEN "process" ELSE "comment"
          /\ idx' = IF idx < Len(cdkOutDirs) THEN idx + 1 ELSE idx
          /\ error' = error
  /\ UNCHANGED <<inputPattern, baseRef, allCdkOutDirs, cdkOutDirs, inputs,
                 octokit, toolkit, method, globCalls, gitCalls,
                 commentCalls, prComments>>
  /\ UNCHANGED prVars

\* run(), lines 133-146: build the directory's processor and await
\* processStages; a throw (the directory could not be set up) is logged and
\* rethrown.
ProcessStages ==
  /\ pc = "process"
  /\ processCalls' =
       Append(processCalls,
              ProcessorOptions(inputs, cdkOutDirs[idx], method, toolkit))
  /\ \/ /\ engineCalls' = <<>>
        /\ results' = <<>>
        /\ pc' = ProcessStagesCatch.pc
        /\ error' = ProcessStagesCatch.error
     \/ \E responses \in StageResponses :
          /\ engineCalls' = responses
          /\ results' = ProcessStagesResults(responses)
          /\ pc' = "comment"
          /\ error' = error
  /\ UNCHANGED <<inputPattern, baseRef, allCdkOutDirs, cdkOutDirs, inputs,
                 octokit, toolkit, method, idx, globCalls, gitCalls,
                 commentCalls, prComments>>
  /\ UNCHANGED prVars

\* run(), lines 148-154: await commentStages; a throw is logged and
\* rethrown, success moves the loop to the next directory.
CommentStages ==
  /\ pc = "comment"
  /\ LET cdkOutDir == cdkOutDirs[idx]
         key == IdentityKey(cdkOutDir, inputs.title)
         body == RenderBody(inputs.title, results)
     IN \/ /\ commentCalls' =
                Append(commentCalls,
                       [cdkOutDir |-> cdkOutDir, body |-> body,
                        write |-> "failed"])
           /\ prComments' = prComments
           /\ idx' = idx
           /\ pc' = CommentStagesCatch.pc
           /\ error' = CommentStagesCatch.error
        \/ /\ commentCalls' =
                Append(commentCalls,
                       [cdkOutDir |-> cdkOutDir, body |-> body,
                        write |-> WriteKind(prComments, key)])
           /\ prComments' = Upsert(prComments, key, body)
           /\ idx' = idx + 1
           /\ pc' = NextDirectory(idx, cdkOutDirs)
           /\ error' = error
  /\ UNCHANGED <<inputPattern, baseRef, allCdkOutDirs, cdkOutDirs, inputs,
                 octokit, toolkit, method, results, engineCalls, globCalls,
                 gitCalls, processCalls>>
  /\ UNCHANGED prVars

\* The workflow runs the action again on the same pull request, with the
\* same inputs, after a run that succeeded.
Rerun ==
  /\ pc = "done"
  /\ runNo < MaxRuns
  /\ runNo' = runNo + 1
  /\ prev' = [run |-> runNo, cdkOutDirs |-> cdkOutDirs,
              artifacts |-> Cardinality(prComments)]
  /\ pc' = "start"
  /\ error' = "none"
  /\ inputPattern' = Unset
  /\ baseRef' = Unset
  /\ allCdkOutDirs' = <<>>
  /\ cdkOutDirs' = <<>>
  /\ inputs' = NoInputs
  /\ octokit' = Unset
  /\ toolkit' = Unset
  /\ method' = Unset
  /\ idx' = 0
  /\ results' = <<>>
  /\ engineCalls' = <<>>
  /\ globCalls' = <<>>
  /\ gitCalls' = <<>>
  /\ processCalls' = <<>>
  /\ commentCalls' = <<>>
  /\ UNCHANGED <<env, prComments>>

Next ==
  \/ GetEarlyInputs
  \/ Expand
  \/ Filter
  \/ GetInputs
  \/ Upgrade
  \/ CreateClients
  \/ ProcessStages
  \/ CommentStages

Spec == Init /\ [][Next]_vars

\* A pull request whose workflow supplies every required input, run
\* repeatedly.
RerunEnvValues ==
  {e \in EnvValues :
     /\ e.cdkOutDirs = ""
     /\ e.baseRef = ""
     /\ e.githubToken # ""
     /\ e.stackSelectorPatterns = <<>>
     /\ e.stackSelectionStrategy = "all-stacks"
     /\ e.diffMethod = "change-set"}

InitRerun ==
  /\ env \in RerunEnvValues
  /\ RunStart
  /\ prComments = {}
  /\ runNo = 1
  /\ prev = NoPrev

NextRerun ==
  \/ Next
  \/ Rerun

SpecRerun == InitRerun /\ [][NextRerun]_vars


\* ------------------------------------------------------------------ claims
\* The directories of the git comparisons that executed and printed nothing.
UnchangedDirs ==
  {gitCalls[i].directory : i \in
     {j \in 1..Len(gitCalls) :
        ~gitCalls[j].response.threw /\ gitCalls[j].response.output = <<>>}}

\* The directories of the git comparisons that executed and printed files.
DirsWithDifferences ==
  {gitCalls[i].directory : i \in
     {j \in 1..Len(gitCalls) :
        ~gitCalls[j].response.threw /\ gitCalls[j].response.output # <<>>}}

\* The directories of the git comparisons that could not execute.
DirsGitFailed ==
  {gitCalls[i].directory : i \in
     {j \in 1..Len(gitCalls) : gitCalls[j].response.threw}}

\* The directories processStages / commentStages were called for.
ProcessedDirs == {processCalls[i].cdkOutDir : i \in 1..Len(processCalls)}
CommentedDirs == {commentCalls[i].cdkOutDir : i \in 1..Len(commentCalls)}

\* How often commentStages was called for a directory in this run.
CommentCount(d) ==
  Cardinality({i \in 1..Len(commentCalls) : commentCalls[i].cdkOutDir = d})

\* C1: once the expansion of the pattern has yielded no existing
\* directory, the run has failed with the configuration error and has made
\* no git comparison, no processStages call and no comment write.
C1_EmptyMatchFails ==
  (Len(globCalls) > 0 /\ Len(allCdkOutDirs) = 0) =>
     /\ pc = "failed"
     /\ error = "ConfigurationError"
     /\ gitCalls = <<>>
     /\ processCalls = <<>>
     /\ commentCalls = <<>>
     /\ prComments = {}

C1_Witness ==
  /\ Len(globCalls) > 0
  /\ Len(allCdkOutDirs) = 0
  /\ pc = "failed"
  /\ error = "ConfigurationError"

\* C2: a directory whose comparison executed and found no difference is
\* never handed to processStages or commentStages, and every directory that
\* is handed to either was compared and found changed (or not comparable)
\* before.
C2_UnchangedNeverDiffed ==
  /\ \A d \in UnchangedDirs : d \notin ProcessedDirs /\ d \notin CommentedDirs
  /\ \A d \in ProcessedDirs \cup CommentedDirs :
       d \in DirsWithDifferences \cup DirsGitFailed

\* Scenario A: two directories matched, one changed, only that one diffed
\* and commented, run succeeded.
C2_Witness ==
  /\ pc = "done"
  /\ Len(allCdkOutDirs) = 2
  /\ UnchangedDirs = {"b/cdk.out"}
  /\ DirsWithDifferences = {"a/cdk.out"}
  /\ ProcessedDirs = {"a/cdk.out"}
  /\ CommentedDirs = {"a/cdk.out"}
  /\ Cardinality(prComments) = 1

\* C3, as stated: at the end of every run, commentStages has been called
\* exactly once for each directory with differences.
C3_OncePerRun ==
  pc \in {"done", "failed"} =>
     \A d \in DirsWithDifferences : CommentCount(d) = 1

\* C3, amended: at the end of every run that succeeds, commentStages has
\* been called exactly once for each directory with differences; in no run
\* is it called twice for a directory.
C3_OncePerSuccessfulRun ==
  /\ pc = "done" => \A d \in DirsWithDifferences : CommentCount(d) = 1
  /\ \A d \in Paths : CommentCount(d) <= 1

C3_Witness ==
  /\ pc = "done"
  /\ Cardinality(DirsWithDifferences) = 2
  /\ \A d \in DirsWithDifferences : CommentCount(d) = 1

\* The artifact of the pull request for a directory of this run.
ArtifactsOf(d) == {c \in prComments : c.key = <<d, inputs.title>>}

\* The comments of the directories before position i are as written: each
\* was written by its one call and the pull request holds what was written.
WrittenBefore(i) ==
  \A j \in 1..(i - 1) :
     /\ commentCalls[j].cdkOutDir = cdkOutDirs[j]
     /\ commentCalls[j].write # "failed"
     /\ \E c \in ArtifactsOf(cdkOutDirs[j]) : c.body = commentCalls[j].body

\* C4: when processStages or commentStages has thrown for the directory at
\* position idx, the run has failed, the calls made are those of the
\* directories up to idx and no later one, commentStages was not called for
\* idx if its processStages threw, and the earlier comments are as written.
C4_FailFast ==
  /\ error = "ProcessStagesError" =>
       /\ pc = "failed"
       /\ Len(processCalls) = idx
       /\ processCalls[idx].cdkOutDir = cdkOutDirs[idx]
       /\ Len(commentCalls) = idx - 1
       /\ WrittenBefore(idx)
  /\ error = "CommentStagesError" =>
       /\ pc = "failed"
       /\ Len(processCalls) = idx
       /\ Len(commentCalls) = idx
       /\ commentCalls[idx].cdkOutDir = cdkOutDirs[idx]
       /\ commentCalls[idx].write = "failed"
       /\ WrittenBefore(idx)

\* The second directory's processStages threw after the first directory's
\* comment was written.
C4_Witness ==
  /\ error = "ProcessStagesError"
  /\ idx = 2
  /\ Len(cdkOutDirs) = 2
  /\ Cardinality(prComments) = 1

\* C5: a run that succeeds on the same changed directories as the
\* successful run before it leaves as many artifacts as that run left,
\* exactly one per changed directory, and every write it made was an update
\* of the artifact found by the key of the directory and the title.
C5_RerunIdempotent ==
  (pc = "done" /\ runNo > 1 /\ prev.cdkOutDirs = cdkOutDirs) =>
     /\ Cardinality(prComments) = prev.artifacts
     /\ \A d \in Range(cdkOutDirs) : Cardinality(ArtifactsOf(d)) = 1
     /\ \A i \in 1..Len(commentCalls) :
          /\ commentCalls[i].write = "update"
          /\ \E c \in ArtifactsOf(commentCalls[i].cdkOutDir) :
               c.body = commentCalls[i].body

\* The second run has commented the same two directories as the first.
C5_Witness ==
  /\ pc = "done"
  /\ runNo = 2
  /\ prev.cdkOutDirs = cdkOutDirs
  /\ Len(cdkOutDirs) = 2
  /\ Len(commentCalls) = 2
  /\ Cardinality(prComments) = 2

\* What run() can throw for a reason other than change detection.
OtherErrors ==
  {"InputRequiredError", "TokenRequiredError", "ProcessStagesError",
   "CommentStagesError"}

\* C6: a directory whose git comparison could not execute is kept in the
\* filtered list; a run that succeeds has diffed and commented it; and a
\* run that fails after such a comparison fails for another reason.
C6_FailOpen ==
  /\ \A d \in DirsGitFailed : d \in Range(cdkOutDirs)
  /\ (pc = "done" /\ DirsGitFailed # {}) =>
        /\ DirsGitFailed \subseteq ProcessedDirs
        /\ DirsGitFailed \subseteq CommentedDirs
  /\ (pc = "failed" /\ DirsGitFailed # {}) => error \in OtherErrors

\* No comparison could execute, and the run diffed and commented every
\* directory and succeeded.
C6_Witness ==
  /\ pc = "done"
  /\ Len(allCdkOutDirs) = 2
  /\ DirsGitFailed = Range(allCdkOutDirs)
  /\ ProcessedDirs = DirsGitFailed
  /\ CommentedDirs = DirsGitFailed

\* C7: when directories were found and every comparison executed and found
\* no difference, the run has completed successfully without a
\* processStages call and without a comment write.
C7_NoChangesNoOp ==
  (Len(allCdkOutDirs) > 0 /\ Len(gitCalls) > 0
     /\ UnchangedDirs = Range(allCdkOutDirs)) =>
     /\ pc = "done"
     /\ error = "none"
     /\ cdkOutDirs = <<>>
     /\ processCalls = <<>>
     /\ commentCalls = <<>>
     /\ prComments = {}

C7_Witness ==
  /\ pc = "done"
  /\ Len(allCdkOutDirs) = 2
  /\ Len(gitCalls) = 2
  /\ UnchangedDirs = Range(allCdkOutDirs)

\* C8: when the patterns supplied are non-empty and the strategy supplied
\* is 'all-stacks', every processor is built with 'pattern-must-match'.
C8_SelectionUpgrade ==
  (Len(GetMultilineInput("stackSelectorPatterns")) > 0
     /\ GetInput("stackSelectionStrategy") = "all-stacks") =>
     \A i \in 1..Len(processCalls) :
        /\ processCalls[i].stackSelectionStrategy = "pattern-must-match"
        /\ Len(processCalls[i].stackSelectorPatterns) > 0

C8_Witness ==
  /\ Len(env.stackSelectorPatterns) > 0
  /\ env.stackSelectionStrategy = "all-stacks"
  /\ Len(processCalls) = 2
  /\ processCalls[2].stackSelectionStrategy = "pattern-must-match"

\* C9: once the method is computed it is TemplateOnly when the diffMethod
\* string held by inputs is 'template-only' and ChangeSet for every other
\* string, every processor is built with it, and with the inputs read and a
\* token present the step that computes it does not fail whatever the
\* string is.
C9_DiffMethodMapping ==
  /\ method # Unset =>
       /\ inputs.diffMethod = "template-only" => method = "TemplateOnly"
       /\ inputs.diffMethod # "template-only" => method = "ChangeSet"
       /\ \A i \in 1..Len(processCalls) : processCalls[i].diffMethod = method
  /\ (inputs # NoInputs /\ inputs.githubToken # ""
        /\ pc \notin {"upgrade", "clients"}) => method # Unset

\* An unrecognized string was mapped to ChangeSet and the run succeeded.
C9_Witness ==
  /\ pc = "done"
  /\ inputs # NoInputs
  /\ inputs.diffMethod = "Template-Only"
  /\ method = "ChangeSet"
  /\ Len(processCalls) > 0
  /\ processCalls[1].diffMethod = "ChangeSet"

\* The DiffResults are one per engine call, in Stage order, error-kind
\* exactly where the engine threw.
ResultsMatchEngine(res) ==
  /\ Len(res) = Len(engineCalls)
  /\ \A i \in 1..Len(engineCalls) :
       /\ res[i].stage = i
       /\ engineCalls[i] = "throws" => res[i].outcome = "error"
       /\ engineCalls[i] # "throws" => res[i].outcome = "changed"

\* C10: an engine error for a Stage gives that Stage an error-kind
\* DiffResult while every Stage of the directory is diffed; processStages
\* throws only before any engine call; and the comment written for the
\* directory holds every DiffResult, the error and the diffs alike.
C10_StageIsolation ==
  /\ pc = "comment" => ResultsMatchEngine(results)
  /\ error = "ProcessStagesError" => engineCalls = <<>>
  /\ (pc \in {"process", "done"} /\ idx > 1) =>
       /\ commentCalls[idx - 1].cdkOutDir = cdkOutDirs[idx - 1]
       /\ ResultsMatchEngine(commentCalls[idx - 1].body.entries)
       /\ \E c \in ArtifactsOf(cdkOutDirs[idx - 1]) :
            ResultsMatchEngine(c.body.entries)

\* Scenario C: the first Stage's engine call threw, the second gave a diff,
\* and the comment on the pull request holds both.
C10_Witness ==
  /\ pc = "done"
  /\ engineCalls = <<"throws", "changes">>
  /\ \E c \in prComments :
       /\ Len(c.body.entries) = 2
       /\ c.body.entries[1].outcome = "error"
       /\ c.body.entries[2].outcome = "changed"

\* What the spec lists as the unrecovered errors: no initial candidates, a
\* processStages (setup) failure, a comment write failure.
ListedErrors ==
  {"ConfigurationError", "ProcessStagesError", "CommentStagesError"}

\* Every error run() can end with: the listed ones, a required input that
\* was not supplied, and an empty token.
UnrecoveredErrors ==
  ListedErrors \cup {"InputRequiredError", "TokenRequiredError"}

C12_Defaults ==
  /\ \A i \in 1..Len(globCalls) :
       /\ env.cdkOutDirs = "" => globCalls[i] = "**/cdk.out"
       /\ env.cdkOutDirs # "" => globCalls[i] = env.cdkOutDirs
  /\ \A i \in 1..Len(gitCalls) :
       /\ env.baseRef = "" => gitCalls[i].baseRef = "origin/main"
       /\ env.baseRef # "" => gitCalls[i].baseRef = env.baseRef
  /\ \A i \in 1..Len(processCalls) :
       /\ env.baseRef = "" => processCalls[i].baseRef = "origin/main"
       /\ env.baseRef # "" => processCalls[i].baseRef = env.baseRef

\* Neither input was supplied and two directories were compared.
C12_Witness ==
  /\ env.cdkOutDirs = ""
  /\ env.baseRef = ""
  /\ globCalls = <<"**/cdk.out">>
  /\ Len(gitCalls) = 2
  /\ gitCalls[2].baseRef = "origin/main"
  /\ Len(processCalls) > 0

\* C13: the calls alternate, one directory at a time and in list order:
\* the processStages calls made are those of the first directories of the
\* filtered list, the commentStages calls made are those of a prefix of
\* them, at most one directory has been diffed and not yet commented, a
\* commentStages call is only due for a directory whose processStages has
\* completed without a throw, and a processStages call is only due once the
\* comment of every earlier directory has been written.
C13_StrictSequence ==
  /\ Len(commentCalls) <= Len(processCalls)
  /\ Len(processCalls) <= Len(commentCalls) + 1
  /\ Len(processCalls) <= Len(cdkOutDirs)
  /\ \A j \in 1..Len(processCalls) : processCalls[j].cdkOutDir = cdkOutDirs[j]
  /\ \A j \in 1..Len(commentCalls) : commentCalls[j].cdkOutDir = cdkOutDirs[j]
  /\ pc = "comment" =>
       /\ error = "none"
       /\ Len(processCalls) = idx
       /\ Len(commentCalls) = idx - 1
       /\ Len(results) > 0
  /\ pc = "process" =>
       /\ Len(processCalls) = idx - 1
       /\ Len(commentCalls) = idx - 1
       /\ \A j \in 1..Len(commentCalls) : commentCalls[j].write # "failed"

\* The second directory is diffed and awaits its comment, the first has
\* its comment.
C13_Witness ==
  /\ pc = "comment"
  /\ idx = 2
  /\ Len(processCalls) = 2
  /\ Len(commentCalls) = 1
  /\ Cardinality(prComments) = 1

\* ------------------------------------------- expansions that repeat a path
\* expandCdkDirectories and filterDirectoriesWithChanges only filter, so
\* what they do with a repeated path is decided by the match list alone.
\* fast-glob returns each path once; here the glob collaborator may return
\* any list of at most MaxMatches paths.
RepeatingGlobResults == UNION {[1..n -> Paths] : n \in 0..MaxMatches}

\* run(), lines 84-88, over RepeatingGlobResults.
ExpandRepeating ==
  /\ pc = "expand"
  /\ \E matches \in RepeatingGlobResults, existing \in SUBSET Paths :
       LET directories == ExpandCdkDirectories(matches, existing) IN
         /\ allCdkOutDirs' = directories
         /\ globCalls' = Append(globCalls, inputPattern)
         /\ pc' = AfterExpand(directories).pc
         /\ error' = AfterExpand(directories).error
  /\ UNCHANGED <<inputPattern, baseRef, cdkOutDirs, inputs, octokit, toolkit,
                 method, gitCalls>>
  /\ UNCHANGED <<loopVars, prVars>>

NextRepeating ==
  \/ GetEarlyInputs
  \/ ExpandRepeating
  \/ Filter
  \/ GetInputs
  \/ Upgrade
  \/ CreateClients
  \/ ProcessStages
  \/ CommentStages

SpecRepeating == InitRerun /\ [][NextRepeating]_vars

\* The positions of the expansion whose comparison counted as changed.
KeptPositions == {i \in 1..Len(gitCalls) : HasGitChanges(gitCalls[i].response)}

\* C14: once filtering has run, the filtered list is the expansion
\* restricted to the positions that counted as changed, in expansion order
\* and one entry per position (a repeated path is kept as often as it
\* appears); processStages and commentStages are called on the entries of
\* the filtered list in list order, and a run that ends in success has made
\* one call of each per entry.
C14_OrderNoDedup ==
  /\ pc \notin {"start", "expand", "filter"} =>
       /\ Len(cdkOutDirs) = Cardinality(KeptPositions)
       /\ \E f \in [1..Len(cdkOutDirs) -> KeptPositions] :
            /\ \A k \in 1..Len(cdkOutDirs) : cdkOutDirs[k] = allCdkOutDirs[f[k]]
            /\ \A k, l \in 1..Len(cdkOutDirs) : k < l => f[k] < f[l]
  /\ \A j \in 1..Len(processCalls) : processCalls[j].cdkOutDir = cdkOutDirs[j]
  /\ \A j \in 1..Len(commentCalls) : commentCalls[j].cdkOutDir = cdkOutDirs[j]
  /\ pc = "done" =>
       /\ Len(processCalls) = Len(cdkOutDirs)
       /\ Len(commentCalls) = Len(cdkOutDirs)

\* The expansion names one path twice, both entries count as changed, and
\* the run has diffed and commented it twice.
C14_Witness ==
  /\ pc = "done"
  /\ allCdkOutDirs = <<"a/cdk.out", "a/cdk.out">>
  /\ cdkOutDirs = <<"a/cdk.out", "a/cdk.out">>
  /\ Len(processCalls) = 2
  /\ Len(commentCalls) = 2
  /\ commentCalls[2].cdkOutDir = "a/cdk.out"

\* The comparisons made are one per expanded directory, in expansion order.
ResolvedOnce ==
  /\ Len(gitCalls) = Len(allCdkOutDirs)
  /\ \A i \in 1..Len(gitCalls) : gitCalls[i].directory = allCdkOutDirs[i]
  /\ \A i, j \in 1..Len(gitCalls) :
       gitCalls[i].directory = gitCalls[j].directory => i = j

\* C15: no comparison is made before the filtering step; from the end of
\* the filtering step on exactly one comparison has been made for every
\* expanded directory, the ones after a failed comparison included; and
\* every step that makes a comparison is the filtering step, taken while no
\* processStages call has been made, so that none follows the first diff.
C15_ResolveOnceBeforeDiff ==
  /\ [](/\ pc \in {"start", "expand", "filter"} => gitCalls = <<>>
        /\ pc \in {"inputs", "upgrade", "clients", "process", "comment", "done"}
             => ResolvedOnce
        /\ processCalls # <<>> => ResolvedOnce)
  /\ [][gitCalls' # gitCalls =>
          /\ pc = "filter"
          /\ gitCalls = <<>>
          /\ processCalls = <<>>
          /\ processCalls' = <<>>]_vars

\* The first comparison failed, the second was still made, and the first
\* directory has been diffed.
C15_Witness ==
  /\ Len(gitCalls) = 2
  /\ gitCalls[1].response.threw
  /\ ~gitCalls[2].response.threw
  /\ Len(processCalls) > 0
  /\ processCalls[1].cdkOutDir = gitCalls[1].directory

\* C16: every processor built in a run is given the method computed before
\* the loop and the effective strategy and patterns of the inputs object,
\* so any two processors of the run are given the same three values; the
\* method is assigned only by the step that constructs the clients, and
\* neither it nor the inputs object changes while the loop runs.
C16_MethodFixedPerRun ==
  /\ [](/\ \A j \in 1..Len(processCalls) :
             /\ method \in {"ChangeSet", "TemplateOnly"}
             /\ processCalls[j].diffMethod = method
             /\ processCalls[j].stackSelectionStrategy =
                  inputs.stackSelectionStrategy
             /\ processCalls[j].stackSelectorPatterns =
                  inputs.stackSelectorPatterns
        /\ \A j, k \in 1..Len(processCalls) :
             /\ processCalls[j].diffMethod = processCalls[k].diffMethod
             /\ processCalls[j].stackSelectionStrategy =
                  processCalls[k].stackSelectionStrategy
             /\ processCalls[j].stackSelectorPatterns =
                  processCalls[k].stackSelectorPatterns)
  /\ [][/\ method' # method => pc = "clients" /\ method = Unset
        /\ pc \in {"process", "comment"} =>
             method' = method /\ inputs' = inputs]_vars

\* Two directories have been handed to processors, both with the
\* template-only method and the upgraded strategy.
C16_Witness ==
  /\ Len(processCalls) = 2
  /\ env.diffMethod = "template-only"
  /\ processCalls[1].diffMethod = "TemplateOnly"
  /\ processCalls[2].diffMethod = "TemplateOnly"
  /\ env.stackSelectionStrategy = "all-stacks"
  /\ processCalls[2].stackSelectionStrategy = "pattern-must-match"
  /\ processCalls[1].cdkOutDir # processCalls[2].cdkOutDir

\* C17: the step that applies the selection upgrade leaves the patterns,
\* title, token, baseRef and diffMethod of the inputs object as they were
\* read, and leaves the strategy as supplied unless the patterns are
\* non-empty and the strategy is 'all-stacks'; from then on the inputs
\* object holds, in those fields, what was read from the workflow, and
\* every processor is given them.
C17_UpgradeFrame ==
  /\ [][pc = "upgrade" =>
          /\ inputs'.stackSelectorPatterns = inputs.stackSelectorPatterns
          /\ inputs'.title = inputs.title
          /\ inputs'.githubToken = inputs.githubToken
          /\ inputs'.baseRef = inputs.baseRef
          /\ inputs'.diffMethod = inputs.diffMethod
          /\ (\/ Len(inputs.stackSelectorPatterns) = 0
              \/ inputs.stackSelectionStrategy # "all-stacks")
               => inputs'.stackSelectionStrategy = inputs.stackSelectionStrategy
          /\ baseRef' = baseRef
          /\ cdkOutDirs' = cdkOutDirs]_vars
  /\ [](pc \in {"clients", "process", "comment", "done"} /\ inputs # NoInputs =>
          /\ inputs.stackSelectorPatterns = ReadInputs.stackSelectorPatterns
          /\ inputs.title = ReadInputs.title
          /\ inputs.githubToken = ReadInputs.githubToken
          /\ inputs.baseRef = ReadInputs.baseRef
          /\ inputs.diffMethod = ReadInputs.diffMethod
          /\ (\/ Len(ReadInputs.stackSelectorPatterns) = 0
              \/ ReadInputs.stackSelectionStrategy # "all-stacks")
               => inputs.stackSelectionStrategy = Trim(env.stackSelectionStrategy)
          /\ \A j \in 1..Len(processCalls) :
               /\ processCalls[j].stackSelectionStrategy =
                    inputs.stackSelectionStrategy
               /\ processCalls[j].stackSelectorPatterns =
                    inputs.stackSelectorPatterns
               /\ processCalls[j].title = inputs.title
               /\ processCalls[j].baseRef = inputs.baseRef)

\* Patterns are supplied with a strategy other than 'all-stacks', and a
\* processor has been given that strategy and those patterns.
C17_Witness ==
  /\ env.stackSelectionStrategy = "pattern-match"
  /\ env.stackSelectorPatterns = <<"Prod*">>
  /\ Len(processCalls) > 0
  /\ processCalls[1].stackSelectionStrategy = "pattern-match"
  /\ processCalls[1].stackSelectorPatterns = <<"Prod*">>

\* Nothing of lines 98-129 has happened: no inputs object, no client, no
\* toolkit, no method, and no failure of a required input or of the token.
NothingConstructed ==
  /\ inputs = NoInputs
  /\ octokit = Unset
  /\ toolkit = Unset
  /\ method = Unset
  /\ error \notin {"InputRequiredError", "TokenRequiredError"}

\* C18: unless change filtering has run and kept at least one directory,
\* the required inputs and the token have not been read and the client,
\* toolkit and method have not been built; a run whose expansion is empty
\* fails with the configuration error only, and a run whose filter keeps
\* nothing ends in success whatever the required inputs and the token are;
\* the steps that read or construct are taken with a non-empty filtered
\* list.
C18_ReadAfterFilter ==
  /\ [](/\ (pc \in {"start", "expand", "filter"} \/ Len(cdkOutDirs) = 0)
             => NothingConstructed
        /\ (Len(globCalls) > 0 /\ Len(allCdkOutDirs) = 0)
             => pc = "failed" /\ error = "ConfigurationError"
        /\ (pc \notin {"start", "expand", "filter"} /\ Len(allCdkOutDirs) > 0
            /\ Len(cdkOutDirs) = 0)
             => pc = "done" /\ error = "none")
  /\ [][(\/ inputs' # inputs
         \/ octokit' # octokit
         \/ toolkit' # toolkit
         \/ method' # method)
          => /\ Len(cdkOutDirs) > 0
             /\ Len(gitCalls) = Len(allCdkOutDirs)
             /\ pc \in {"inputs", "upgrade", "clients"}]_vars

\* The no-op path taken by a workflow that supplies neither the strategy,
\* nor the diffMethod, nor the token.
C18_Witness ==
  /\ pc = "done"
  /\ error = "none"
  /\ Len(gitCalls) > 0
  /\ Len(cdkOutDirs) = 0
  /\ env.stackSelectionStrategy = ""
  /\ env.diffMethod = ""
  /\ env.githubToken = ""

\* ------------------------------------------------------------- termination
\* run() is a single async function: whenever the collaborator call it is
\* waiting for returns or fails, its next step is taken.
FairSpec == Init /\ [][Next]_vars /\ WF_vars(Next)

Terminal == pc \in {"done", "failed"}

\* C19: every run reaches a terminal outcome; the outcome is success
\* (no error) or failure (an error), never both, and no step follows it;
\* and at every moment at most one processStages call and at most one
\* commentStages call has been made per entry of the filtered list, each
\* directory being called at most once.
C19_Termination ==
  /\ <>Terminal
  /\ [](/\ pc = "done" => error = "none"
        /\ pc = "failed" => error # "none"
        /\ Len(processCalls) <= Len(cdkOutDirs)
        /\ Len(commentCalls) <= Len(cdkOutDirs)
        /\ \A j, k \in 1..Len(processCalls) :
             processCalls[j].cdkOutDir = processCalls[k].cdkOutDir => j = k
        /\ \A j, k \in 1..Len(commentCalls) :
             commentCalls[j].cdkOutDir = commentCalls[k].cdkOutDir => j = k)
  /\ [][~Terminal]_vars

\* A run over two changed directories that has ended in success after a
\* recovered Stage failure.
C19_Witness ==
  /\ pc = "done"
  /\ Len(cdkOutDirs) = 2
  /\ Len(processCalls) = 2
  /\ Len(commentCalls) = 2
  /\ Len(engineCalls) = MaxStages
  /\ engineCalls[1] = "throws"

====
